---------------------------- MODULE Spec2Model ----------------------------
(***************************************************************************)
(* Model of the WeChat official-account client (src/wx/wechat.py) and the  *)
(* publish script (src/wx/publish.py): the access-token file cache, the    *)
(* media uploads, draft creation, publish submission and the do_publish    *)
(* pipeline.  Every client process executes the functions line group by    *)
(* line group; the clock, the token cache file and the provider are        *)
(* shared.                                                                 *)
(***************************************************************************)
EXTENDS Integers, Sequences, FiniteSets, TLC

\* ------------------------------------------------------------ bounds
\* top-level operations one client process performs
MaxOps == 2
\* clock advances in one behaviour
MaxTicks == 2
\* the clock value of the initial state
StartTime == 10000

\* ------------------------------------------------- program constants
\* wechat.py:55  "- 300"  (expire five minutes early)
SafetyMargin == 300
\* wechat.py:55  data.get("expires_in", 7200)
DefaultExpiresIn == 7200

\* ------------------------------------------------------ input domains
AllProcs == {"p1", "p2"}
\* amounts by which the clock advances between two steps
TickSteps == {1, 6899}
\* expires_in values the token endpoint answers with
ExpiresInValues == {300, 7200}
\* os.getenv results: None (modelled "None"), the empty string, a value
AppIdValues == {"None", "", "A"}
AppSecretValues == {"None", "B"}
\* files that exist on the local disk
ExistingFiles == {"article.md", "cover.jpg"}
\* paths handed to the upload functions and to do_publish ("" is None)
ImagePaths == {"cover.jpg", "missing.jpg"}
CoverArgs == {"", "cover.jpg", "missing.jpg"}
MarkdownPaths == {"article.md", "nofile.md"}
DraftIds == {"d1", "d2"}
\* publish.py:161  Path(__file__).parent / "default_cover.jpg"
DefaultCover == "default_cover.jpg"

\* ---------------------------------------------------------- JSON values
\* the empty JSON object {}
EmptyObj == [k \in {} |-> 0]

\* dict.get(key, default)
Get(d, k, default) == IF k \in DOMAIN d THEN d[k] ELSE default

\* The text of a file: form "object" carries a JSON object; "empty" is the
\* zero-length file, "partial" a cut or mixed text, "array" the text of a
\* JSON value that is not an object.
Text(form, obj) == [form |-> form, obj |-> obj]
EmptyText == Text("empty", EmptyObj)
PartialText == Text("partial", EmptyObj)
ArrayText == Text("array", EmptyObj)

\* json.dumps(cache)
JsonDumps(obj) == Text("object", obj)

\* json.loads(text): ok is FALSE when it raises JSONDecodeError
JsonLoads(text) ==
    CASE text.form = "object" -> [ok |-> TRUE, isDict |-> TRUE, obj |-> text.obj]
      [] text.form = "array" -> [ok |-> TRUE, isDict |-> FALSE, obj |-> EmptyObj]
      [] OTHER -> [ok |-> FALSE, isDict |-> FALSE, obj |-> EmptyObj]

\* a file of the disk: TOKEN_CACHE.exists() and its text
File(exists, text) == [exists |-> exists, text |-> text]
NoFile == File(FALSE, EmptyText)

\* ---------------------------------------------------------- exceptions
Exc(type, payload) == [type |-> type, payload |-> payload]
NoExc == Exc("", EmptyObj)

\* ------------------------------------------------------- return values
Val(kind, v) == [kind |-> kind, v |-> v]
NoVal == Val("none", "")

\* values a provider puts in publish_id: a JSON string or a JSON number
JStr(s) == [t |-> "str", s |-> s, n |-> 0]
JInt(n) == [t |-> "int", s |-> "", n |-> n]
\* Python str(x)
Str(x) == IF x.t = "str" THEN x.s ELSE ToString(x.n)


\* ------------------------------------------------- pure parts of the code
\* a falsy os.getenv result: None or the empty string
Falsy(s) == s = "None" \/ s = ""

\* _check_credentials raises ValueError
CredentialsMissingOnlyBoth(id, secret) == Falsy(id) /\ Falsy(secret)
CredentialsMissing(id, secret) == Falsy(id) \/ Falsy(secret)

\* get_access_token line 38: the cache is consulted
UseCacheIgnoringForce(force, exists) == exists
UseCache(force, exists) == ~force /\ exists

\* get_access_token line 40: time.time() < cache.get("expires_at", 0)
IsFreshInclusive(t, cache) == t <= Get(cache, "expires_at", 0)
IsFreshInverted(t, cache) == t > Get(cache, "expires_at", 0)
IsFresh(t, cache) == t < Get(cache, "expires_at", 0)

\* get_access_token line 55
ExpiresAtNoMargin(t, data) == t + Get(data, "expires_in", DefaultExpiresIn)
ExpiresAt(t, data) == t + Get(data, "expires_in", DefaultExpiresIn) - SafetyMargin

\* publish line 197
PublishFailedIfPresent(data) == "errcode" \in DOMAIN data
PublishFailed(data) == Get(data, "errcode", 0) # 0

\* publish lines 200-202
PublishId(data) == Str(Get(data, "publish_id", JStr("unknown")))

\* Path(p).exists() on a disk holding the files fs
PathExists(path, fs) == path \in fs

\* ------------------------------------------------------------ provider
\* the name of the n-th token the provider issues
TokenName(n) == "tok" \o ToString(n)

\* answers of GET /token that issue token t
TokenGrants(t) ==
    {[access_token |-> t, expires_in |-> e] : e \in ExpiresInValues}
        \cup {[access_token |-> t]}
\* answers of GET /token that carry no access_token
TokenErrors == {[errcode |-> 40013, errmsg |-> "invalid appid"]}

\* answers of the three upload endpoints
MediaAnswers == {[media_id |-> "m1"], [errcode |-> 40004, errmsg |-> "invalid media type"]}
UrlAnswers == {[url |-> "http://mmbiz/u1"], [errcode |-> 40004, errmsg |-> "invalid media type"]}
\* answers of POST /draft/add
DraftAnswers ==
    {[media_id |-> d] : d \in DraftIds}
        \cup {[errcode |-> 40007, errmsg |-> "invalid media_id"]}
\* answers of POST /freepublish/submit
PublishAnswers ==
    { [publish_id |-> JStr("p1")],
      [errcode |-> 0, errmsg |-> "ok", publish_id |-> JInt(100)],
      [errcode |-> 0, errmsg |-> "ok"],
      [errcode |-> 40001, errmsg |-> "invalid credential"],
      [errcode |-> 40001, errmsg |-> "invalid credential", publish_id |-> JStr("p1")] }

\* one HTTP round trip: the endpoint, the parameter that matters (grant
\* type, media type, thumb_media_id, media_id), the access_token sent and
\* the JSON answer
Req(ep, arg, token, answer) ==
    [ep |-> ep, arg |-> arg, token |-> token, answer |-> answer]

\* --------------------------------------------------------------- state
VARIABLES
    APP_ID,        \* wechat.py:22
    APP_SECRET,    \* wechat.py:23
    TOKEN_CACHE,   \* wechat.py:26, the file .token_cache.json
    disk,          \* the other files of the local disk
    now,           \* time.time()
    ticks,         \* clock advances so far
    issued,        \* provider: the tokens issued, each with time and lifetime
    procs,         \* the client processes of this run
    quota,         \* top-level operations each process performs
    pc,            \* per process: the line group it is about to execute
    fn,            \* per process: the wechat function it is executing
    frame,         \* per process: arguments and locals
    cur,           \* per process: the running or last top-level operation
    prev,          \* per process: the operation before cur
    nops           \* per process: operations started

vars == <<APP_ID, APP_SECRET, TOKEN_CACHE, disk, now, ticks, issued, procs, quota,
          pc, fn, frame, cur, prev, nops>>

\* arguments and locals of the running call chain
NewFrame(force, path, permanent, media_id, draft_only) ==
    [force |-> force, path |-> path, permanent |-> permanent,
     media_id |-> media_id, draft_only |-> draft_only,
     token |-> "", data |-> EmptyObj, cache |-> EmptyObj, thumb |-> ""]
BlankFrame == NewFrame(FALSE, "", FALSE, "", FALSE)

\* the observation of one top-level operation: what it was called with,
\* the cache file and clock when it started, the requests it sent, the
\* cache texts it read, the token answer it used, the clock it read at
\* line 55, the record it wrote, the exception it raised, what it returned
NewCur(op, fr, file, t) ==
    [op |-> op, force |-> fr.force, path |-> fr.path,
     media_id |-> fr.media_id, draft_only |-> fr.draft_only,
     startNow |-> t, cache0 |-> file, reqs |-> <<>>, read |-> <<>>,
     resp |-> EmptyObj, answer |-> EmptyObj, clock |-> 0, wrote |-> EmptyObj,
     token |-> "", exc |-> NoExc, result |-> NoVal, done |-> FALSE]
NoOp == [NewCur("none", BlankFrame, NoFile, 0) EXCEPT !.done = TRUE]

\* what is kept of an operation once the next one has started
Past(c) ==
    [op |-> c.op, force |-> c.force, reqs |-> c.reqs, wrote |-> c.wrote,
     clock |-> c.clock, exc |-> c.exc, result |-> c.result, done |-> c.done]

\* cache files a run may start with
InitialRecords ==
    {[access_token |-> "tok0", expires_at |-> e] :
        e \in {StartTime - 1, StartTime, StartTime + 1, StartTime + 6900}}
    \cup {[access_token |-> "tok0"], [expires_at |-> StartTime + 6900], EmptyObj}
WholeRecords == {r \in InitialRecords : DOMAIN r = {"access_token", "expires_at"}}
InitialCaches ==
    {NoFile, File(TRUE, EmptyText), File(TRUE, PartialText), File(TRUE, ArrayText)}
        \cup {File(TRUE, JsonDumps(r)) : r \in InitialRecords}

InitWith(ps, caches, disks, q) ==
    /\ APP_ID \in AppIdValues
    /\ APP_SECRET \in AppSecretValues
    /\ TOKEN_CACHE \in caches
    /\ disk \in disks
    /\ now = StartTime
    /\ ticks = 0
    /\ issued = <<>>
    /\ procs = ps
    /\ quota = q
    /\ pc = [p \in AllProcs |-> "idle"]
    /\ fn = [p \in AllProcs |-> ""]
    /\ frame = [p \in AllProcs |-> BlankFrame]
    /\ cur = [p \in AllProcs |-> NoOp]
    /\ prev = [p \in AllProcs |-> Past(NoOp)]
    /\ nops = [p \in AllProcs |-> 0]

Init == InitWith({"p1"}, InitialCaches, {ExistingFiles}, MaxOps)

\* --------------------------------------------------------- control flow
Ctl(pcv, fnv, fr, c) == [pc |-> pcv, fn |-> fnv, frame |-> fr, cur |-> c]

Apply(p, k) ==
    /\ pc' = [pc EXCEPT ![p] = k.pc]
    /\ fn' = [fn EXCEPT ![p] = k.fn]
    /\ frame' = [frame EXCEPT ![p] = k.frame]
    /\ cur' = [cur EXCEPT ![p] = k.cur]

\* the top-level operation ends
DoneCtl(c, e, v) ==
    Ctl("idle", "", BlankFrame, [c EXCEPT !.exc = e, !.result = v, !.done = TRUE])

\* an exception leaves the wechat function: do_verify (publish.py:125-127)
\* catches it and exits 1; everywhere else it propagates to the caller
RaiseCtl(c, e) ==
    DoneCtl(c, e, IF c.op = "do_verify" THEN Val("exit", "1") ELSE NoVal)

\* get_access_token returns token t to the function that called it
TokenCtl(f, fr, c, t) ==
    LET c2 == [c EXCEPT !.token = t] IN
    CASE f = "get_access_token" ->
            DoneCtl(c2, NoExc,
                    IF c.op = "do_verify" THEN Val("exit", "0") ELSE Val("token", t))
      [] f \in {"upload_image", "upload_thumb_image", "upload_content_image"} ->
            Ctl("up_exists", f, [fr EXCEPT !.token = t], c2)
      [] f = "create_draft" -> Ctl("cd_post", f, [fr EXCEPT !.token = t], c2)
      [] f = "publish" -> Ctl("pub_post", f, [fr EXCEPT !.token = t], c2)

\* do_publish lines 180-184, publish called with the draft's media_id at 188
PublishArgThumb(fr, draftId) == fr.thumb
PublishArg(fr, draftId) == draftId

\* do_publish line 180
StopAfterDraft(draft_only) == draft_only

\* a wechat function other than get_access_token returns v: do_publish
\* (publish.py:168-193) goes on with its next call, a direct call ends
ReturnCtl(f, fr, c, v) ==
    IF c.op # "do_publish" THEN DoneCtl(c, NoExc, v)
    ELSE CASE f = "upload_thumb_image" ->
                Ctl("gat_enter", "create_draft", [fr EXCEPT !.thumb = v.v], c)
           [] f = "create_draft" ->
                IF StopAfterDraft(fr.draft_only)
                THEN DoneCtl(c, NoExc, Val("draft", v.v))
                ELSE Ctl("gat_enter", "publish",
                         [fr EXCEPT !.media_id = PublishArg(fr, v.v)], c)
           [] OTHER -> DoneCtl(c, NoExc, v)


\* ------------------------------------------------------------- actions
\* what a step of process p leaves alone besides its own control state
Fixed == UNCHANGED <<APP_ID, APP_SECRET, disk, procs, quota, prev, nops>>

\* process p calls a wechat function f from top-level operation op
Start(p, op, f, fr) ==
    /\ p \in procs
    /\ pc[p] = "idle"
    /\ nops[p] < quota
    /\ prev' = [prev EXCEPT ![p] = Past(cur[p])]
    /\ nops' = [nops EXCEPT ![p] = @ + 1]
    /\ Apply(p, Ctl("gat_enter", f, fr, NewCur(op, fr, TOKEN_CACHE, now)))
    /\ UNCHANGED <<APP_ID, APP_SECRET, TOKEN_CACHE, disk, now, ticks, issued, procs,
                   quota>>

\* wechat.get_access_token(force_refresh=force)
StartGet(p) ==
    \E force \in BOOLEAN :
        Start(p, "get_access_token", "get_access_token",
              NewFrame(force, "", FALSE, "", FALSE))

\* publish.do_verify(): wechat.get_access_token(force_refresh=True)
StartVerify(p) ==
    Start(p, "do_verify", "get_access_token", NewFrame(TRUE, "", FALSE, "", FALSE))

\* wechat.upload_image(path, permanent), upload_thumb_image(path),
\* upload_content_image(path)
StartUpload(p) ==
    \E path \in ImagePaths :
        \/ \E permanent \in BOOLEAN :
              Start(p, "upload_image", "upload_image",
                    NewFrame(FALSE, path, permanent, "", FALSE))
        \/ \E f \in {"upload_thumb_image", "upload_content_image"} :
              Start(p, f, f, NewFrame(FALSE, path, FALSE, "", FALSE))

\* wechat.create_draft(title, content, thumb_media_id)
StartCreateDraft(p) ==
    Start(p, "create_draft", "create_draft",
          [NewFrame(FALSE, "", FALSE, "", FALSE) EXCEPT !.thumb = "m1"])

\* wechat.publish(media_id)
StartPublish(p) ==
    \E m \in DraftIds :
        Start(p, "publish", "publish", NewFrame(FALSE, "", FALSE, m, FALSE))

\* publish.do_publish lines 146-147 and 159-166: the cover path in use,
\* "" when there is none (the script exits 1)
CoverPath(coverArg, metaCover, fs) ==
    LET c1 == IF coverArg = "" THEN metaCover ELSE coverArg IN
    IF c1 # "" THEN c1
    ELSE IF PathExists(DefaultCover, fs) THEN DefaultCover ELSE ""

\* publish.do_publish(md_path, cover_path, author, draft_only), lines
\* 132-168: up to the call of wechat.upload_thumb_image
StartDoPublish(p) ==
    \E md \in MarkdownPaths, coverArg \in CoverArgs, metaCover \in {"", "cover.jpg"},
       draft_only \in BOOLEAN :
        LET cover == CoverPath(coverArg, metaCover, disk)
            fr == NewFrame(FALSE, cover, FALSE, "", draft_only)
            c == NewCur("do_publish", fr, TOKEN_CACHE, now)
        IN  /\ p \in procs
            /\ pc[p] = "idle"
            /\ nops[p] < quota
            /\ prev' = [prev EXCEPT ![p] = Past(cur[p])]
            /\ nops' = [nops EXCEPT ![p] = @ + 1]
            /\ Apply(p, IF ~PathExists(md, disk) \/ cover = ""
                        THEN DoneCtl(c, NoExc, Val("exit", "1"))
                        ELSE Ctl("gat_enter", "upload_thumb_image", fr, c))
            /\ UNCHANGED <<APP_ID, APP_SECRET, TOKEN_CACHE, disk, now, ticks,
                           issued, procs, quota>>

\* get_access_token lines 36-38
GatEnter(p) ==
    /\ p \in procs
    /\ pc[p] = "gat_enter"
    /\ Apply(p, IF CredentialsMissing(APP_ID, APP_SECRET)
                THEN RaiseCtl(cur[p], Exc("ValueError", EmptyObj))
                ELSE IF UseCache(frame[p].force, TOKEN_CACHE.exists)
                     THEN Ctl("gat_read", fn[p], frame[p], cur[p])
                     ELSE Ctl("gat_request", fn[p], frame[p], cur[p]))
    /\ Fixed
    /\ UNCHANGED <<TOKEN_CACHE, now, ticks, issued>>

\* get_access_token lines 39-41
GatRead(p) ==
    /\ p \in procs
    /\ pc[p] = "gat_read"
    /\ LET text == TOKEN_CACHE.text
           parsed == JsonLoads(text)
           c == [cur[p] EXCEPT !.read = Append(@, text)]
       IN  Apply(p,
             IF ~parsed.ok THEN RaiseCtl(c, Exc("JSONDecodeError", EmptyObj))
             ELSE IF ~parsed.isDict THEN RaiseCtl(c, Exc("AttributeError", EmptyObj))
             ELSE IF IsFresh(now, parsed.obj)
                  THEN IF "access_token" \in DOMAIN parsed.obj
                       THEN TokenCtl(fn[p], frame[p], c, parsed.obj.access_token)
                       ELSE RaiseCtl(c, Exc("KeyError", EmptyObj))
                  ELSE Ctl("gat_request", fn[p], frame[p], c))
    /\ Fixed
    /\ UNCHANGED <<TOKEN_CACHE, now, ticks, issued>>

\* The lifetime of a token the provider grants: the expires_in it states,
\* and the two hours of the platform (wechat.py:4) when it states none.
Lifetime(data) == Get(data, "expires_in", 7200)

\* get_access_token lines 43-51: the request, the provider's answer (a
\* grant issues a token), the check of the answer
GatRequest(p) ==
    /\ p \in procs
    /\ pc[p] = "gat_request"
    /\ \E data \in TokenGrants(TokenName(Len(issued) + 1)) \cup TokenErrors :
        LET c == [cur[p] EXCEPT
                    !.reqs = Append(@, Req("token", "client_credential", "", data)),
                    !.resp = data]
        IN  IF "access_token" \notin DOMAIN data
            THEN /\ Apply(p, RaiseCtl(c, Exc("RuntimeError", data)))
                 /\ UNCHANGED issued
            ELSE /\ issued' = Append(issued,
                        [token |-> data.access_token, at |-> now,
                         life |-> Lifetime(data)])
                 /\ Apply(p, Ctl("gat_build", fn[p],
                                 [frame[p] EXCEPT !.data = data], c))
    /\ Fixed
    /\ UNCHANGED <<TOKEN_CACHE, now, ticks>>

\* get_access_token lines 53-56
GatBuild(p) ==
    /\ p \in procs
    /\ pc[p] = "gat_build"
    /\ LET data == frame[p].data
           cache == [access_token |-> data.access_token,
                     expires_at |-> ExpiresAt(now, data)]
       IN  Apply(p, Ctl("gat_open", fn[p], [frame[p] EXCEPT !.cache = cache],
                        [cur[p] EXCEPT !.clock = now]))
    /\ Fixed
    /\ UNCHANGED <<TOKEN_CACHE, now, ticks, issued>>

\* get_access_token line 57, Path.write_text: open(mode="w") truncates
GatOpen(p) ==
    /\ p \in procs
    /\ pc[p] = "gat_open"
    /\ TOKEN_CACHE' = File(TRUE, EmptyText)
    /\ Apply(p, Ctl("gat_write", fn[p], frame[p], cur[p]))
    /\ Fixed
    /\ UNCHANGED <<now, ticks, issued>>

\* The text on disk after this process wrote `mine` from offset 0 over
\* `onDisk`: its own text, or, over a text another process wrote since the
\* truncation, possibly its own followed by the tail of the longer one.
WrittenTexts(mine, onDisk) ==
    IF onDisk = EmptyText THEN {mine} ELSE {mine, PartialText}

\* get_access_token lines 57-58, Path.write_text: write, close; return
GatWrite(p) ==
    /\ p \in procs
    /\ pc[p] = "gat_write"
    /\ \E text \in WrittenTexts(JsonDumps(frame[p].cache), TOKEN_CACHE.text) :
          TOKEN_CACHE' = File(TRUE, text)
    /\ Apply(p, TokenCtl(fn[p], frame[p],
                         [cur[p] EXCEPT !.wrote = frame[p].cache],
                         frame[p].cache.access_token))
    /\ Fixed
    /\ UNCHANGED <<now, ticks, issued>>

\* upload_image 71-73, upload_thumb_image 99-101, upload_content_image 120-122
UpExists(p) ==
    /\ p \in procs
    /\ pc[p] = "up_exists"
    /\ Apply(p, IF ~PathExists(frame[p].path, disk)
                THEN RaiseCtl(cur[p], Exc("FileNotFoundError", EmptyObj))
                ELSE Ctl("up_post", fn[p], frame[p], cur[p]))
    /\ Fixed
    /\ UNCHANGED <<TOKEN_CACHE, now, ticks, issued>>

\* upload_image 75-80, upload_thumb_image 103, upload_content_image 124
UploadUrl(f, permanent) ==
    CASE f = "upload_image" ->
            IF permanent THEN "material/add_material" ELSE "media/upload"
      [] f = "upload_thumb_image" -> "material/add_material"
      [] f = "upload_content_image" -> "media/uploadimg"

\* the "type" parameter: lines 77/80, 104, 125
UploadType(f) ==
    CASE f = "upload_image" -> "image"
      [] f = "upload_thumb_image" -> "thumb"
      [] f = "upload_content_image" -> ""

\* upload_image 82-90, upload_thumb_image 106-114, upload_content_image 127-135
UpPost(p) ==
    /\ p \in procs
    /\ pc[p] = "up_post"
    /\ LET f == fn[p]
           key == IF f = "upload_content_image" THEN "url" ELSE "media_id"
       IN  \E data \in (IF f = "upload_content_image" THEN UrlAnswers ELSE MediaAnswers) :
             LET c == [cur[p] EXCEPT
                         !.reqs = Append(@, Req(UploadUrl(f, frame[p].permanent),
                                                UploadType(f), frame[p].token, data)),
                         !.answer = data]
             IN  Apply(p, IF key \notin DOMAIN data
                          THEN RaiseCtl(c, Exc("RuntimeError", data))
                          ELSE ReturnCtl(f, frame[p], c, Val(key, data[key])))
    /\ Fixed
    /\ UNCHANGED <<TOKEN_CACHE, now, ticks, issued>>

\* create_draft lines 153-177
CdPost(p) ==
    /\ p \in procs
    /\ pc[p] = "cd_post"
    /\ \E data \in DraftAnswers :
         LET c == [cur[p] EXCEPT
                     !.reqs = Append(@, Req("draft/add", frame[p].thumb, frame[p].token,
                                            data)),
                     !.answer = data]
         IN  Apply(p, IF "media_id" \notin DOMAIN data
                      THEN RaiseCtl(c, Exc("RuntimeError", data))
                      ELSE ReturnCtl(fn[p], frame[p], c, Val("media_id", data.media_id)))
    /\ Fixed
    /\ UNCHANGED <<TOKEN_CACHE, now, ticks, issued>>

\* publish lines 190-202
PubPost(p) ==
    /\ p \in procs
    /\ pc[p] = "pub_post"
    /\ \E data \in PublishAnswers :
         LET c == [cur[p] EXCEPT
                     !.reqs = Append(@, Req("freepublish/submit", frame[p].media_id,
                                            frame[p].token, data)),
                     !.answer = data]
         IN  Apply(p, IF PublishFailed(data)
                      THEN RaiseCtl(c, Exc("RuntimeError", data))
                      ELSE ReturnCtl(fn[p], frame[p], c, Val("publish_id", PublishId(data))))
    /\ Fixed
    /\ UNCHANGED <<TOKEN_CACHE, now, ticks, issued>>

\* The clock advances: while a request is in flight (the answer to the
\* token request has been sent and line 55 has not yet read the clock, an
\* upload, draft or publish request is about to be answered) or between two
\* operations of a process.
Waiting(p) ==
    \/ pc[p] \in {"gat_build", "up_post", "cd_post", "pub_post"}
    \/ pc[p] = "idle" /\ nops[p] < quota

Tick ==
    /\ ticks < MaxTicks
    /\ \E p \in procs : Waiting(p)
    /\ \E d \in TickSteps : now' = now + d
    /\ ticks' = ticks + 1
    /\ UNCHANGED <<APP_ID, APP_SECRET, TOKEN_CACHE, disk, issued, procs, quota,
                   pc, fn, frame, cur, prev, nops>>

\* a client of the token cache: get_access_token and do_verify
Next ==
    \/ Tick
    \/ \E p \in procs : StartGet(p)
    \/ \E p \in procs : StartVerify(p)
    \/ \E p \in procs : GatEnter(p)
    \/ \E p \in procs : GatRead(p)
    \/ \E p \in procs : GatRequest(p)
    \/ \E p \in procs : GatBuild(p)
    \/ \E p \in procs : GatOpen(p)
    \/ \E p \in procs : GatWrite(p)

\* one process calling get_access_token and do_verify, MaxOps times
Spec == Init /\ [][Next]_vars

\* one run of an upload, of create_draft, of publish or of do_publish, the
\* cache file absent, empty, or holding an expired or an unexpired record
PipeCaches ==
    {NoFile, File(TRUE, EmptyText)}
        \cup {File(TRUE, JsonDumps(r)) :
                 r \in {w \in WholeRecords :
                           w.expires_at \in {StartTime, StartTime + 6900}}}

PipeInit ==
    InitWith({"p1"}, PipeCaches,
             {ExistingFiles, ExistingFiles \cup {DefaultCover}}, 1)

PipeNext ==
    \/ Tick
    \/ \E p \in procs : StartUpload(p)
    \/ \E p \in procs : StartCreateDraft(p)
    \/ \E p \in procs : StartPublish(p)
    \/ \E p \in procs : StartDoPublish(p)
    \/ \E p \in procs : GatEnter(p)
    \/ \E p \in procs : GatRead(p)
    \/ \E p \in procs : GatRequest(p)
    \/ \E p \in procs : GatBuild(p)
    \/ \E p \in procs : GatOpen(p)
    \/ \E p \in procs : GatWrite(p)
    \/ \E p \in procs : UpExists(p)
    \/ \E p \in procs : UpPost(p)
    \/ \E p \in procs : CdPost(p)
    \/ \E p \in procs : PubPost(p)

PipeSpec == PipeInit /\ [][PipeNext]_vars

\* two processes sharing the cache file, each calling get_access_token
\* once, the file absent or holding a whole record when they start
ConcCaches ==
    {NoFile} \cup {File(TRUE, JsonDumps(r)) :
                     r \in {w \in WholeRecords : w.expires_at # StartTime + 1}}

ConcInit == InitWith(AllProcs, ConcCaches, {ExistingFiles}, 1)

ConcNext ==
    \/ Tick
    \/ \E p \in procs : StartGet(p)
    \/ \E p \in procs : GatEnter(p)
    \/ \E p \in procs : GatRead(p)
    \/ \E p \in procs : GatRequest(p)
    \/ \E p \in procs : GatBuild(p)
    \/ \E p \in procs : GatOpen(p)
    \/ \E p \in procs : GatWrite(p)

ConcSpec == ConcInit /\ [][ConcNext]_vars

\* ------------------------------------------------------ claim vocabulary
\* the app id or the app secret is unset (None or empty)
IdentityUnset == APP_ID \in {"None", ""} \/ APP_SECRET \in {"None", ""}

\* requests to the token endpoint in a request log
TokenReqs(reqs) == Cardinality({i \in DOMAIN reqs : reqs[i].ep = "token"})

IsRemoteStep(r) == r.ep # "token"
\* the requests of a log that are not token requests, in order
RemoteSteps(reqs) == SelectSeq(reqs, IsRemoteStep)

\* a cache file holding a whole record {access_token, expires_at}
HoldsRecord(file) ==
    /\ file.exists
    /\ file.text.form = "object"
    /\ DOMAIN file.text.obj = {"access_token", "expires_at"}

\* the operation is a direct get_access_token call, a direct upload
IsGet(c) == c.op = "get_access_token"
IsUpload(c) == c.op \in {"upload_image", "upload_thumb_image", "upload_content_image"}

\* a round trip whose answer makes the calling function raise
Failed(r) ==
    CASE r.ep = "token" -> "access_token" \notin DOMAIN r.answer
      [] r.ep = "media/uploadimg" -> "url" \notin DOMAIN r.answer
      [] r.ep = "freepublish/submit" ->
            "errcode" \in DOMAIN r.answer /\ r.answer.errcode # 0
      [] OTHER -> "media_id" \notin DOMAIN r.answer

\* ------------------------------------------------------------------ C1
\* C1 as stated: two successive get_access_token(force_refresh=False)
\* calls that both return a token, made with a valid identity, perform
\* exactly one call to the token endpoint between them.
C1_ExactlyOneCall ==
    \A p \in procs :
        ( /\ ~IdentityUnset
          /\ IsGet(prev[p]) /\ ~prev[p].force /\ prev[p].result.kind = "token"
          /\ IsGet(cur[p]) /\ ~cur[p].force /\ cur[p].done
          /\ cur[p].result.kind = "token" )
        => TokenReqs(prev[p].reqs) + TokenReqs(cur[p].reqs) = 1

\* C1 amended: of two successive get_access_token(force_refresh=False)
\* calls, when the first refreshed and wrote a record and the second
\* completes before that record's expires_at, the second makes no network
\* call and returns the token the first cached, so the two make exactly
\* one call; when the first was served from the cache and the second
\* completes before the cached expires_at, the two make no call at all.
C1_SecondCallServedFromCache ==
    \A p \in procs :
        ( /\ IsGet(prev[p]) /\ ~prev[p].force /\ prev[p].result.kind = "token"
          /\ IsGet(cur[p]) /\ ~cur[p].force /\ cur[p].done
          /\ HoldsRecord(cur[p].cache0)
          /\ now < cur[p].cache0.text.obj.expires_at )
        => /\ cur[p].reqs = <<>>
           /\ cur[p].exc = NoExc
           /\ cur[p].result = Val("token", prev[p].result.v)
           /\ IF prev[p].wrote # EmptyObj
              THEN /\ TokenReqs(prev[p].reqs) = 1
                   /\ cur[p].cache0 = File(TRUE, JsonDumps(prev[p].wrote))
              ELSE TokenReqs(prev[p].reqs) = 0

\* the first call refreshed, time passed, the second was served from the cache
C1_Witness ==
    \E p \in procs :
        /\ IsGet(prev[p]) /\ ~prev[p].force /\ prev[p].wrote # EmptyObj
        /\ IsGet(cur[p]) /\ ~cur[p].force /\ cur[p].done
        /\ cur[p].startNow > prev[p].clock
        /\ now < prev[p].wrote.expires_at
        /\ cur[p].result = Val("token", prev[p].wrote.access_token)

\* ------------------------------------------------------------------ C2
\* C2: an upload called with a path that does not exist, with a valid
\* identity and the cache absent or holding a whole record, fails with
\* FileNotFoundError without any request and without touching the cache.
C2_MissingFileBeforeNetwork ==
    \A p \in procs :
        ( /\ IsUpload(cur[p]) /\ cur[p].done
          /\ ~IdentityUnset
          /\ cur[p].path \notin disk
          /\ ~cur[p].cache0.exists \/ HoldsRecord(cur[p].cache0) )
        => /\ cur[p].exc.type = "FileNotFoundError"
           /\ cur[p].reqs = <<>>
           /\ TOKEN_CACHE = cur[p].cache0

\* ------------------------------------------------------------------ C3
\* C3: with a cache file that exists and does not hold a whole record,
\* get_access_token(force_refresh=False) calls the token endpoint and, on a
\* grant, overwrites the file with a whole record and returns the new token.
C3_MalformedCacheIsMiss ==
    \A p \in procs :
        ( /\ IsGet(cur[p]) /\ ~cur[p].force /\ cur[p].done
          /\ ~IdentityUnset
          /\ cur[p].cache0.exists /\ ~HoldsRecord(cur[p].cache0) )
        => /\ TokenReqs(cur[p].reqs) = 1
           /\ "access_token" \in DOMAIN cur[p].resp =>
                /\ cur[p].result = Val("token", cur[p].resp.access_token)
                /\ HoldsRecord(TOKEN_CACHE)
                /\ TOKEN_CACHE.text.obj.access_token = cur[p].resp.access_token

\* ------------------------------------------------------------------ C4
\* C4: with the app id or the app secret unset, no request is ever sent,
\* the provider issues nothing, the cache file is neither read nor changed,
\* and get_access_token (either force_refresh) ends with ValueError.
C4_UnsetIdentityFailsFirst ==
    IdentityUnset =>
        /\ issued = <<>>
        /\ \A p \in procs :
              /\ cur[p].reqs = <<>>
              /\ cur[p].read = <<>>
              /\ cur[p].op # "none" => TOKEN_CACHE = cur[p].cache0
              /\ (cur[p].op # "none" /\ cur[p].done) =>
                    /\ cur[p].exc = Exc("ValueError", EmptyObj)
                    /\ cur[p].result.kind # "token"

\* only the secret is unset, a fresh token is cached, the call failed
C4_Witness ==
    \E p \in procs :
        /\ APP_ID = "A" /\ APP_SECRET = "None"
        /\ IsGet(cur[p]) /\ cur[p].done
        /\ HoldsRecord(cur[p].cache0)
        /\ now < cur[p].cache0.text.obj.expires_at
        /\ cur[p].exc.type = "ValueError"

\* ------------------------------------------------------------------ C5
\* C5: with a valid identity, get_access_token(force_refresh=True), called
\* directly or by do_verify, never reads the cache and ends having sent
\* exactly one token request; the token it returns is the one that answer
\* granted, not the one cached before.
C5_ForceRefreshCallsNetwork ==
    \A p \in procs :
        ( /\ cur[p].op \in {"get_access_token", "do_verify"}
          /\ cur[p].force
          /\ ~IdentityUnset )
        => /\ cur[p].read = <<>>
           /\ cur[p].done =>
                /\ TokenReqs(cur[p].reqs) = 1
                /\ cur[p].exc = NoExc =>
                     /\ "access_token" \in DOMAIN cur[p].resp
                     /\ cur[p].token = cur[p].resp.access_token
                     /\ HoldsRecord(cur[p].cache0) =>
                            cur[p].token # cur[p].cache0.text.obj.access_token

\* a forced call made while an unexpired token was cached
C5_Witness ==
    \E p \in procs :
        /\ IsGet(cur[p]) /\ cur[p].force /\ cur[p].done
        /\ HoldsRecord(cur[p].cache0)
        /\ now < cur[p].cache0.text.obj.expires_at
        /\ cur[p].result.kind = "token"
        /\ TokenReqs(cur[p].reqs) = 1

\* ------------------------------------------------------------------ C6
\* C6: with a valid identity and a cached expires_at <= now when the call
\* starts, get_access_token(force_refresh=False) sends one token request;
\* on a grant it overwrites the file with the new record and returns the
\* new token, on a refusal it raises; the cached token is never returned.
C6_ExpiredCacheRefreshes ==
    \A p \in procs :
        ( /\ IsGet(cur[p]) /\ ~cur[p].force /\ cur[p].done
          /\ ~IdentityUnset
          /\ cur[p].cache0.exists
          /\ cur[p].cache0.text.form = "object"
          /\ "expires_at" \in DOMAIN cur[p].cache0.text.obj
          /\ cur[p].cache0.text.obj.expires_at <= cur[p].startNow )
        => /\ TokenReqs(cur[p].reqs) = 1
           /\ cur[p].result # Val("token", Get(cur[p].cache0.text.obj, "access_token", ""))
           /\ IF "access_token" \in DOMAIN cur[p].resp
              THEN /\ cur[p].result = Val("token", cur[p].resp.access_token)
                   /\ HoldsRecord(TOKEN_CACHE)
                   /\ TOKEN_CACHE.text.obj.access_token = cur[p].resp.access_token
                   /\ TOKEN_CACHE # cur[p].cache0
              ELSE /\ cur[p].exc = Exc("RuntimeError", cur[p].resp)
                   /\ TOKEN_CACHE = cur[p].cache0

\* the cached record expired exactly now and the call refreshed
C6_Witness ==
    \E p \in procs :
        /\ IsGet(cur[p]) /\ ~cur[p].force /\ cur[p].done
        /\ HoldsRecord(cur[p].cache0)
        /\ cur[p].cache0.text.obj.expires_at = cur[p].startNow
        /\ cur[p].result.kind = "token"
        /\ TOKEN_CACHE # cur[p].cache0

\* ------------------------------------------------------------------ C7
\* the provider-side expiry of token t
ProviderExpiry(t) ==
    LET i == CHOOSE j \in DOMAIN issued : issued[j].token = t
    IN  issued[i].at + issued[i].life

\* the token of the cache file was issued in this run
CachedIssued ==
    /\ HoldsRecord(TOKEN_CACHE)
    /\ \E j \in DOMAIN issued : issued[j].token = TOKEN_CACHE.text.obj.access_token

\* what every finished refresh wrote and returned: with the answer
\* {access_token: t, expires_in: e} (e = 7200 when omitted) and the clock
\* value read at line 55, the record {t, clock + e - 300}, and t
RefreshWroteExactly(c) ==
    (c.done /\ c.wrote # EmptyObj) =>
        /\ c.wrote = [access_token |-> c.resp.access_token,
                      expires_at |-> c.clock + Get(c.resp, "expires_in", 7200) - 300]
        /\ c.token = c.resp.access_token
        /\ TOKEN_CACHE = File(TRUE, JsonDumps(c.wrote))

\* C7 as stated: a finished refresh wrote exactly {t, now + e - 300} and
\* returned t, and the cached expires_at of a token issued in this run is at
\* least 300 seconds before that token's provider-side expiry.
C7_MarginAtLeast300 ==
    /\ \A p \in procs : RefreshWroteExactly(cur[p])
    /\ CachedIssued =>
          TOKEN_CACHE.text.obj.expires_at + 300
              <= ProviderExpiry(TOKEN_CACHE.text.obj.access_token)

\* C7 amended: a finished refresh wrote exactly {t, clock + e - 300}, clock
\* being the time read after the answer arrived, and returned t; the cached
\* expires_at is earlier than the token's provider-side expiry by 300
\* seconds less the time that passed between the grant and that clock read.
C7_MarginLessLatency ==
    \A p \in procs :
        /\ RefreshWroteExactly(cur[p])
        /\ (cur[p].done /\ cur[p].wrote # EmptyObj) =>
              LET g == issued[Len(issued)] IN
              /\ g.token = cur[p].wrote.access_token
              /\ g.at <= cur[p].clock
              /\ ProviderExpiry(g.token) - cur[p].wrote.expires_at
                    = 300 - (cur[p].clock - g.at)

\* a refresh whose answer omitted expires_in and took time to arrive
C7_Witness ==
    \E p \in procs :
        /\ cur[p].done /\ cur[p].wrote # EmptyObj
        /\ "expires_in" \notin DOMAIN cur[p].resp
        /\ cur[p].clock > issued[Len(issued)].at
        /\ cur[p].result.kind = "token"

\* ------------------------------------------------------------------ C8
\* the operation's last round trip was the publish submission
PublishAnswered(c) ==
    /\ c.done
    /\ c.reqs # <<>>
    /\ c.reqs[Len(c.reqs)].ep = "freepublish/submit"

\* C8 as stated: publish raises RuntimeError carrying the raw answer when
\* the answer's errcode is non-zero, returns only when errcode is zero or
\* absent, and what it returns is the publish_id of the answer.
C8_HandleIsProviderId ==
    \A p \in procs :
        PublishAnswered(cur[p]) =>
            LET a == cur[p].reqs[Len(cur[p].reqs)].answer IN
            IF "errcode" \in DOMAIN a /\ a.errcode # 0
            THEN cur[p].exc = Exc("RuntimeError", a)
            ELSE /\ cur[p].exc = NoExc
                 /\ cur[p].result.kind = "publish_id"
                 /\ "publish_id" \in DOMAIN a
                 /\ a.publish_id = JStr(cur[p].result.v)

\* C8 amended: as stated, except that what publish returns is the string
\* form of the answer's publish_id, and the string "unknown" when the
\* answer carries no publish_id.
C8_HandleIsStringOrUnknown ==
    \A p \in procs :
        PublishAnswered(cur[p]) =>
            LET a == cur[p].reqs[Len(cur[p].reqs)].answer IN
            IF "errcode" \in DOMAIN a /\ a.errcode # 0
            THEN /\ cur[p].exc = Exc("RuntimeError", a)
                 /\ cur[p].result.kind # "publish_id"
            ELSE /\ cur[p].exc = NoExc
                 /\ cur[p].result.kind = "publish_id"
                 /\ cur[p].result.v =
                        IF "publish_id" \in DOMAIN a
                        THEN (IF a.publish_id.t = "str" THEN a.publish_id.s
                              ELSE ToString(a.publish_id.n))
                        ELSE "unknown"

\* publish answered {errcode: 40001, ...} and raised with that payload
C8_Witness ==
    \E p \in procs :
        /\ cur[p].op = "publish"
        /\ PublishAnswered(cur[p])
        /\ cur[p].exc.type = "RuntimeError"
        /\ "errcode" \in DOMAIN cur[p].exc.payload
        /\ cur[p].exc.payload.errcode = 40001

\* ------------------------------------------------------------------ C9
\* C9: in do_publish the remote steps are, in order, the cover upload, the
\* draft creation and the publish submission; the draft is requested with
\* the media_id the upload returned, the submission with the media_id the
\* draft returned and never under draft-only, and no request follows a
\* failed one.
C9_PipelineOrder ==
    \A p \in procs :
        cur[p].op = "do_publish" =>
            LET all == cur[p].reqs
                r == RemoteSteps(all)
            IN  /\ Len(r) <= 3
                /\ Len(r) >= 1 =>
                      r[1].ep = "material/add_material" /\ r[1].arg = "thumb"
                /\ Len(r) >= 2 =>
                      /\ r[2].ep = "draft/add"
                      /\ "media_id" \in DOMAIN r[1].answer
                      /\ r[2].arg = r[1].answer.media_id
                /\ Len(r) >= 3 =>
                      /\ r[3].ep = "freepublish/submit"
                      /\ "media_id" \in DOMAIN r[2].answer
                      /\ r[3].arg = r[2].answer.media_id
                      /\ ~cur[p].draft_only
                /\ \A i \in DOMAIN all : Failed(all[i]) => i = Len(all) /\ cur[p].done
                /\ cur[p].exc # NoExc => cur[p].done

\* a run that uploaded, drafted "d2" and submitted it
C9_Witness ==
    \E p \in procs :
        /\ cur[p].op = "do_publish" /\ cur[p].done
        /\ Len(RemoteSteps(cur[p].reqs)) = 3
        /\ RemoteSteps(cur[p].reqs)[3].arg = "d2"
        /\ cur[p].result.kind = "publish_id"

\* ----------------------------------------------------------------- C10
\* C10: whatever the interleaving, every text a process reads from the
\* cache file is a whole record, and every token returned was the cached
\* one or issued by the provider.
C10_ReadsWholeRecords ==
    \A p \in procs :
        /\ \A i \in DOMAIN cur[p].read :
              /\ cur[p].read[i].form = "object"
              /\ DOMAIN cur[p].read[i].obj = {"access_token", "expires_at"}
        /\ cur[p].result.kind = "token" =>
              \/ cur[p].result.v = "tok0"
              \/ \E j \in DOMAIN issued : issued[j].token = cur[p].result.v

=============================================================================
